---- MODULE Spec2Model ----
(***************************************************************************)
(* Funnel and cohort analysis of a user event log.                         *)
(*                                                                         *)
(* FunnelAnalyzer (src/src/analysis/funnel_analyzer.py) holds an event     *)
(* table `data` and the cached result `funnel_data`; CohortAnalyzer        *)
(* (src/src/analysis/cohort_analysis.py) holds its own event table and the *)
(* cached `cohort_data`.  A DataFrame is modelled as the sequence of its   *)
(* rows, Python's None as a record with none = TRUE, a Python set as a     *)
(* set, and a float produced by `/` and `* 100` as the exact rational in   *)
(* lowest terms (IEEE rounding of the quotient is not modelled).           *)
(***************************************************************************)
EXTENDS Integers, Sequences, FiniteSets, TLC

VARIABLES
    data,         \* FunnelAnalyzer.data: None or the event table
    funnel_data,  \* FunnelAnalyzer.funnel_data: None or the last funnel result
    ret,          \* the last FunnelAnalyzer call: its arguments and what it returned or raised
    cdata,        \* CohortAnalyzer.data: the event table given to the constructor
    cohort_data,  \* CohortAnalyzer.cohort_data: None or the last cohort result
    cret          \* the last CohortAnalyzer call: its arguments and what it returned or raised

vars == <<data, funnel_data, ret, cdata, cohort_data, cret>>

---------------------------------------------------------------------------
(* Bounds of the model *)

MaxUser == 2

MaxTs == 1

MaxRows == 4

MaxSteps == 3

MaxCohortRows == 3

MaxCohortTs == 5

InstantsPerMonth == 2

MaxLoadRows == 1

MaxExportRows == 3

MaxPreprocessRows == 3

MaxCallSteps == 2

---------------------------------------------------------------------------
(* Values *)

Users == 1..MaxUser

Events == {"page_view", "signup", "first_purchase"}

Timestamps == 0..MaxTs

DefaultUserCol == "user_id"

DefaultEventCol == "event"

DefaultTimestampCol == "timestamp"

Columns == {DefaultUserCol, DefaultEventCol, DefaultTimestampCol}

ColumnArgs(default) == {default, "no_such_column"}

Rows == [user_id : Users, event : Events, timestamp : Timestamps]

Logs == UNION {[1..n -> Rows] : n \in 0..MaxRows}

StepLists == UNION {[1..n -> Events] : n \in 0..MaxSteps}

None == [none |-> TRUE, rows |-> <<>>]

DataFrame(rows) == [none |-> FALSE, rows |-> rows]

---------------------------------------------------------------------------
(* Python numbers: int / int is a float, here an exact rational <<n, d>>   *)
(* in lowest terms; dividing by zero raises ZeroDivisionError.             *)

RECURSIVE GCD(_, _)
GCD(a, b) == IF b = 0 THEN a ELSE GCD(b, a % b)

Rat(n, d) == LET g == GCD(n, d) IN <<n \div g, d \div g>>

\* The first row's rates given as the fraction 1.0 instead of the percentage.
FloatOne == <<1, 1>>

Float100 == <<100, 1>>

ZeroDivision == <<0, 0>>

\* The quotient left as a fraction, not multiplied by 100.
TrueDivFraction(a, b) == IF b = 0 THEN ZeroDivision ELSE Rat(a, b)

TrueDivTimes100(a, b) == IF b = 0 THEN ZeroDivision ELSE Rat(a * 100, b)

---------------------------------------------------------------------------
(* FunnelAnalyzer.create_funnel_analysis *)

\* set(self.data[self.data[event_col] == step][user_col])
UsersOfStep(rows, step) ==
    {rows[k].user_id : k \in {j \in DOMAIN rows : rows[j].event = step}}

\* The loop body without the intersection with the previous step's users.
FunnelStepNoIntersection(rows, funnel_steps, i, funnel_results) ==
    LET step == funnel_steps[i]
        users_at_step == UsersOfStep(rows, step)
        total_users == Cardinality(users_at_step)
        conversion_rate ==
            IF i = 1 THEN Float100
            ELSE TrueDivTimes100(total_users, funnel_results[1].count)
        step_conversion ==
            IF i = 1 THEN Float100
            ELSE TrueDivTimes100(total_users, funnel_results[i - 1].count)
    IN [step |-> step, count |-> total_users,
        conversion_rate |-> conversion_rate,
        step_conversion |-> step_conversion,
        users |-> users_at_step]

\* The loop body of a sequence-based funnel: a user counts at a later step
\* only with an occurrence of it no earlier than one of the previous step.
FunnelStepSequenceBased(rows, funnel_steps, i, funnel_results) ==
    LET step == funnel_steps[i]
        after_previous ==
            {rows[k].user_id : k \in {j \in DOMAIN rows :
                /\ rows[j].event = step
                /\ \E h \in DOMAIN rows :
                      /\ rows[h].user_id = rows[j].user_id
                      /\ rows[h].event = funnel_steps[i - 1]
                      /\ rows[h].timestamp <= rows[j].timestamp}}
        users_at_step ==
            IF i = 1
            THEN UsersOfStep(rows, step)
            ELSE funnel_results[i - 1].users \cap after_previous
        total_users == Cardinality(users_at_step)
        conversion_rate ==
            IF i = 1 THEN Float100
            ELSE TrueDivTimes100(total_users, funnel_results[1].count)
        step_conversion ==
            IF i = 1 THEN Float100
            ELSE TrueDivTimes100(total_users, funnel_results[i - 1].count)
    IN [step |-> step, count |-> total_users,
        conversion_rate |-> conversion_rate,
        step_conversion |-> step_conversion,
        users |-> users_at_step]

\* One iteration of the loop over enumerate(funnel_steps): the entry
\* appended to funnel_results, or a ZeroDivision rate when `/` raises.
FunnelStep(rows, funnel_steps, i, funnel_results) ==
    LET step == funnel_steps[i]
        users_at_step ==
            IF i = 1
            THEN UsersOfStep(rows, step)
            ELSE funnel_results[i - 1].users \cap UsersOfStep(rows, step)
        total_users == Cardinality(users_at_step)
        conversion_rate ==
            IF i = 1 THEN Float100
            ELSE TrueDivTimes100(total_users, funnel_results[1].count)
        step_conversion ==
            IF i = 1 THEN Float100
            ELSE TrueDivTimes100(total_users, funnel_results[i - 1].count)
    IN [step |-> step, count |-> total_users,
        conversion_rate |-> conversion_rate,
        step_conversion |-> step_conversion,
        users |-> users_at_step]

Raised(entry) ==
    entry.conversion_rate = ZeroDivision \/ entry.step_conversion = ZeroDivision

\* The whole loop: the list funnel_results, or the exception that ends it.
RECURSIVE FunnelLoop(_, _, _, _)
FunnelLoop(rows, funnel_steps, i, funnel_results) ==
    IF i > Len(funnel_steps)
    THEN [outcome |-> "returned", value |-> funnel_results]
    ELSE LET entry == FunnelStep(rows, funnel_steps, i, funnel_results)
         IN IF Raised(entry)
            THEN [outcome |-> "ZeroDivisionError", value |-> <<>>]
            ELSE FunnelLoop(rows, funnel_steps, i + 1,
                            Append(funnel_results, entry))

\* pd.DataFrame([... for r in funnel_results]): the 'users' key is dropped.
FunnelFrame(funnel_results) ==
    [k \in DOMAIN funnel_results |->
        [step |-> funnel_results[k].step,
         count |-> funnel_results[k].count,
         conversion_rate |-> funnel_results[k].conversion_rate,
         step_conversion |-> funnel_results[k].step_conversion]]

\* The call on a loaded table: a column that does not exist raises KeyError
\* at the first lookup, which is inside the loop.
FunnelCall(rows, funnel_steps, user_col, event_col) ==
    IF Len(funnel_steps) > 0 /\ (event_col \notin Columns \/ user_col \notin Columns)
    THEN [outcome |-> "KeyError", value |-> <<>>]
    ELSE LET r == FunnelLoop(rows, funnel_steps, 1, <<>>)
         IN [outcome |-> r.outcome, value |-> FunnelFrame(r.value)]

NoCall == [op |-> "none", steps |-> <<>>, cols |-> <<>>, outcome |-> "none", value |-> None]

\* The call answering from the cached funnel_data when there is one.
CreateFunnelAnalysisCached(funnel_steps, user_col, event_col) ==
    LET r == IF data.none
             THEN [outcome |-> "no_data", value |-> <<>>]
             ELSE IF ~funnel_data.none
             THEN [outcome |-> "returned", value |-> funnel_data.rows]
             ELSE FunnelCall(data.rows, funnel_steps, user_col, event_col)
        result == IF r.outcome = "returned" THEN DataFrame(r.value) ELSE None
    IN /\ funnel_data' = IF r.outcome = "returned" THEN result ELSE funnel_data
       /\ ret' = [op |-> "create_funnel_analysis", steps |-> funnel_steps,
                  cols |-> <<user_col, event_col>>,
                  outcome |-> r.outcome, value |-> result]
       /\ UNCHANGED <<data, cdata, cohort_data, cret>>

\* The call clearing the cached funnel_data when it does not complete.
CreateFunnelAnalysisClearing(funnel_steps, user_col, event_col) ==
    LET r == IF data.none
             THEN [outcome |-> "no_data", value |-> <<>>]
             ELSE FunnelCall(data.rows, funnel_steps, user_col, event_col)
        result == IF r.outcome = "returned" THEN DataFrame(r.value) ELSE None
    IN /\ funnel_data' = result
       /\ ret' = [op |-> "create_funnel_analysis", steps |-> funnel_steps,
                  cols |-> <<user_col, event_col>>,
                  outcome |-> r.outcome, value |-> result]
       /\ UNCHANGED <<data, cdata, cohort_data, cret>>

\* The call keeping only the rows of the requested steps in self.data.
CreateFunnelAnalysisFiltering(funnel_steps, user_col, event_col) ==
    LET r == IF data.none
             THEN [outcome |-> "no_data", value |-> <<>>]
             ELSE FunnelCall(data.rows, funnel_steps, user_col, event_col)
        result == IF r.outcome = "returned" THEN DataFrame(r.value) ELSE None
        wanted(row) == \E k \in DOMAIN funnel_steps : funnel_steps[k] = row.event
    IN /\ funnel_data' = IF r.outcome = "returned" THEN result ELSE funnel_data
       /\ ret' = [op |-> "create_funnel_analysis", steps |-> funnel_steps,
                  cols |-> <<user_col, event_col>>,
                  outcome |-> r.outcome, value |-> result]
       /\ data' = IF data.none THEN data
                  ELSE [data EXCEPT !.rows = SelectSeq(data.rows, wanted)]
       /\ UNCHANGED <<cdata, cohort_data, cret>>

CreateFunnelAnalysis(funnel_steps, user_col, event_col) ==
    LET r == IF data.none
             THEN [outcome |-> "no_data", value |-> <<>>]
             ELSE FunnelCall(data.rows, funnel_steps, user_col, event_col)
        result == IF r.outcome = "returned" THEN DataFrame(r.value) ELSE None
    IN /\ funnel_data' = IF r.outcome = "returned" THEN result ELSE funnel_data
       /\ ret' = [op |-> "create_funnel_analysis", steps |-> funnel_steps,
                  cols |-> <<user_col, event_col>>,
                  outcome |-> r.outcome, value |-> result]
       /\ UNCHANGED <<data, cdata, cohort_data, cret>>

---------------------------------------------------------------------------
(* CohortAnalyzer.create_cohort_analysis *)

\* The event column takes no part in the cohort computation.
CohortEvents == {"page_view"}

CohortTimestamps == 0..MaxCohortTs

CohortRows == [user_id : Users, event : CohortEvents, timestamp : CohortTimestamps]

CohortLogs == UNION {[1..n -> CohortRows] : n \in 0..MaxCohortRows}

\* The table handed to CohortAnalyzer(data); `parsed` says whether its
\* timestamp column holds datetimes (after pd.to_datetime) or the strings
\* read from the CSV file.
CohortFrame(rows, parsed) == [none |-> FALSE, rows |-> rows, parsed |-> parsed]

\* No CohortAnalyzer has been constructed.
NoFrame == [none |-> TRUE, rows |-> <<>>, parsed |-> FALSE]

\* Series.dt.to_period('M'): the calendar month an instant falls in.
ToPeriodM(ts) == ts \div InstantsPerMonth

NaN == <<0, 0>>

IsNaN(x) == x[2] = 0

RECURSIVE SortedSeq(_)
SortedSeq(S) ==
    IF S = {} THEN <<>>
    ELSE LET m == CHOOSE x \in S : \A y \in S : x <= y
         IN <<m>> \o SortedSeq(S \ {m})

\* The last event of each user taken for the first (max for min).
UserLastEvent(rows) ==
    LET users == {rows[k].user_id : k \in DOMAIN rows}
        stamps(u) == {rows[k].timestamp : k \in {j \in DOMAIN rows : rows[j].user_id = u}}
    IN [u \in users |-> CHOOSE t \in stamps(u) : \A t2 \in stamps(u) : t >= t2]

\* self.data.groupby(user_col)[timestamp_col].min(): the cohort_date of
\* each user of the table.
UserFirstEvent(rows) ==
    LET users == {rows[k].user_id : k \in DOMAIN rows}
        stamps(u) == {rows[k].timestamp : k \in {j \in DOMAIN rows : rows[j].user_id = u}}
    IN [u \in users |-> CHOOSE t \in stamps(u) : \A t2 \in stamps(u) : t <= t2]

\* self.data.merge(user_first_event) with the columns cohort_period,
\* event_period and period_number added.
CohortData(rows) ==
    LET user_first_event == UserFirstEvent(rows)
    IN [k \in DOMAIN rows |->
          LET cohort_period == ToPeriodM(user_first_event[rows[k].user_id])
              event_period == ToPeriodM(rows[k].timestamp)
          IN [user_id |-> rows[k].user_id,
              timestamp |-> rows[k].timestamp,
              cohort_period |-> cohort_period,
              event_period |-> event_period,
              period_number |-> event_period - cohort_period]]

\* The size of a group (its rows) instead of its distinct users.
GroupSize(cohort_data_rows, c, p) ==
    Cardinality({j \in DOMAIN cohort_data_rows :
                    /\ cohort_data_rows[j].cohort_period = c
                    /\ cohort_data_rows[j].period_number = p})

\* groupby(['cohort_period', 'period_number'])[user_col].nunique() of one group.
NUnique(cohort_data_rows, c, p) ==
    Cardinality({cohort_data_rows[k].user_id :
        k \in {j \in DOMAIN cohort_data_rows :
                  /\ cohort_data_rows[j].cohort_period = c
                  /\ cohort_data_rows[j].period_number = p}})

\* The pivot with every period between the first and the last given a column
\* and a missing cell filled from the nearest earlier period of its row.
CohortTableFilled(cohort_data_rows) ==
    LET groups == {<<cohort_data_rows[k].cohort_period, cohort_data_rows[k].period_number>> :
                      k \in DOMAIN cohort_data_rows}
        idx == {g[1] : g \in groups}
        seen == {g[2] : g \in groups}
        lo == CHOOSE x \in seen : \A y \in seen : x <= y
        hi == CHOOSE x \in seen : \A y \in seen : x >= y
        cols == lo..hi
        earlier(c, p) == {q \in seen : q <= p /\ <<c, q>> \in groups}
        last(c, p) == CHOOSE q \in earlier(c, p) : \A q2 \in earlier(c, p) : q >= q2
    IN [index |-> SortedSeq(idx),
        columns |-> SortedSeq(cols),
        cell |-> [cp \in idx \X cols |->
                    IF earlier(cp[1], cp[2]) # {}
                    THEN <<NUnique(cohort_data_rows, cp[1], last(cp[1], cp[2])), 1>>
                    ELSE NaN]]

\* The pivot: rows are the cohort periods, columns the period numbers, both
\* ascending; a (cohort, period) pair with no group is NaN.
CohortTable(cohort_data_rows) ==
    LET groups == {<<cohort_data_rows[k].cohort_period, cohort_data_rows[k].period_number>> :
                      k \in DOMAIN cohort_data_rows}
        idx == {g[1] : g \in groups}
        cols == {g[2] : g \in groups}
    IN [index |-> SortedSeq(idx),
        columns |-> SortedSeq(cols),
        cell |-> [cp \in idx \X cols |->
                    IF cp \in groups
                    THEN <<NUnique(cohort_data_rows, cp[1], cp[2]), 1>>
                    ELSE NaN]]

\* cohort_table.iloc[:, -1]: the last column of the table.
CohortSizesLastColumn(cohort_table) ==
    [c \in {cohort_table.index[k] : k \in DOMAIN cohort_table.index} |->
        cohort_table.cell[<<c, cohort_table.columns[Len(cohort_table.columns)]>>]]

\* cohort_table.iloc[:, 0]: the first column of the table.
CohortSizes(cohort_table) ==
    [c \in {cohort_table.index[k] : k \in DOMAIN cohort_table.index} |->
        cohort_table.cell[<<c, cohort_table.columns[1]>>]]

\* Float division of two cells: NaN when either is NaN or the divisor is 0.
FloatDiv(x, y) ==
    IF IsNaN(x) \/ IsNaN(y) \/ y[1] = 0 THEN NaN ELSE Rat(x[1] * y[2], x[2] * y[1])

\* cohort_table.divide(cohort_sizes, axis=0)
RetentionTable(cohort_table, cohort_sizes) ==
    [index |-> cohort_table.index,
     columns |-> cohort_table.columns,
     cell |-> [cp \in DOMAIN cohort_table.cell |->
                 FloatDiv(cohort_table.cell[cp], cohort_sizes[cp[1]])]]

NoCohort == [cohort_table |-> <<>>, retention_table |-> <<>>, cohort_sizes |-> <<>>]

\* The call: an unknown user or timestamp column raises KeyError at the
\* groupby, a timestamp column of strings has no .dt accessor, and an empty
\* table has no first column for iloc.
CohortCall(frame, user_col, timestamp_col, event_col) ==
    IF user_col \notin Columns \/ timestamp_col \notin Columns
    THEN [outcome |-> "KeyError", value |-> NoCohort]
    ELSE IF ~frame.parsed
    THEN [outcome |-> "AttributeError", value |-> NoCohort]
    ELSE IF frame.rows = <<>>
    THEN [outcome |-> "IndexError", value |-> NoCohort]
    ELSE LET cohort_table == CohortTable(CohortData(frame.rows))
             cohort_sizes == CohortSizes(cohort_table)
         IN [outcome |-> "returned",
             value |-> [cohort_table |-> cohort_table,
                        retention_table |-> RetentionTable(cohort_table, cohort_sizes),
                        cohort_sizes |-> cohort_sizes]]

CreateCohortAnalysis(user_col, timestamp_col, event_col) ==
    LET r == CohortCall(cdata, user_col, timestamp_col, event_col)
        result == [none |-> r.outcome # "returned", table |-> r.value]
    IN /\ cohort_data' = IF r.outcome = "returned" THEN result ELSE cohort_data
       /\ cret' = [op |-> "create_cohort_analysis",
                   cols |-> <<user_col, timestamp_col, event_col>>,
                   outcome |-> r.outcome, value |-> result]
       /\ UNCHANGED <<cdata, data, funnel_data, ret>>

NoCohortData == [none |-> TRUE, table |-> NoCohort]

NoCohortCall ==
    [op |-> "none", cols |-> <<>>, outcome |-> "none", value |-> NoCohortData]

---------------------------------------------------------------------------
(* FunnelAnalyzer: load_data, preprocess_data, the chart methods, and the  *)
(* export script that drives them.                                         *)

\* The event table of a FunnelAnalyzer; `parsed` says whether its timestamp
\* column holds datetimes (after pd.to_datetime) or the strings read by
\* pd.read_csv.  A row's timestamp is the instant its text denotes.
EventTable(rows, parsed) == [none |-> FALSE, rows |-> rows, parsed |-> parsed]

Call(op, steps, cols, outcome, value) ==
    [op |-> op, steps |-> steps, cols |-> cols, outcome |-> outcome, value |-> value]

\* What a path can lead to: a file pd.read_csv cannot read, or a table of
\* at most n rows.
CsvFiles(n) ==
    {[ok |-> FALSE, rows |-> <<>>]} \cup
    {[ok |-> TRUE, rows |-> log] : log \in UNION {[1..k -> Rows] : k \in 0..n}}

\* load_data: the exception of pd.read_csv is caught and printed, and
\* self.data keeps what it held.
LoadData(file) ==
    /\ data' = IF file.ok THEN EventTable(file.rows, FALSE) ELSE data
    /\ ret' = Call("load_data", <<>>, <<>>,
                   IF file.ok THEN "loaded" ELSE "error_printed", None)
    /\ UNCHANGED <<funnel_data, cdata, cohort_data, cret>>

\* The sort key of sort_values([user_col, timestamp_col]).
KeyLE(a, b) ==
    \/ a.user_id < b.user_id
    \/ a.user_id = b.user_id /\ a.timestamp <= b.timestamp

RECURSIVE InsertSorted(_, _)
InsertSorted(sorted, r) ==
    IF sorted = <<>> THEN <<r>>
    ELSE IF KeyLE(Head(sorted), r)
         THEN <<Head(sorted)>> \o InsertSorted(Tail(sorted), r)
         ELSE <<r>> \o sorted

\* The table left in its row order.
Unsorted(rows) == rows

\* DataFrame.sort_values([user_col, timestamp_col]): a stable sort.
RECURSIVE SortValues(_)
SortValues(rows) ==
    IF rows = <<>> THEN <<>>
    ELSE InsertSorted(SortValues(SubSeq(rows, 1, Len(rows) - 1)), rows[Len(rows)])

\* drop_duplicates(subset=[user_col]): one row per user.
DropDuplicatesByUser(rows) ==
    LET keep == {k \in DOMAIN rows :
                    \A j \in 1..(k - 1) : rows[j].user_id # rows[k].user_id}
        order == SortedSeq(keep)
    IN [i \in DOMAIN order |-> rows[order[i]]]

\* drop_duplicates(subset=[user_col, event_col]): the first row of each pair.
DropDuplicates(rows) ==
    LET keep == {k \in DOMAIN rows :
                    \A j \in 1..(k - 1) :
                        <<rows[j].user_id, rows[j].event>> # <<rows[k].user_id, rows[k].event>>}
        order == SortedSeq(keep)
    IN [i \in DOMAIN order |-> rows[order[i]]]

\* preprocess_data: each statement that looks a column up raises KeyError
\* when the column does not exist, after the statements before it have run.
PreprocessData(timestamp_col, user_col, event_col) ==
    LET cols == <<timestamp_col, user_col, event_col>>
        after ==
            IF data.none \/ timestamp_col \notin Columns THEN data
            ELSE IF user_col \notin Columns THEN EventTable(data.rows, TRUE)
            ELSE IF event_col \notin Columns
                 THEN EventTable(SortValues(data.rows), TRUE)
            ELSE EventTable(DropDuplicates(SortValues(data.rows)), TRUE)
        outcome ==
            IF data.none THEN "no_data"
            ELSE IF \E k \in DOMAIN cols : cols[k] \notin Columns THEN "KeyError"
            ELSE "returned"
    IN /\ data' = after
       /\ ret' = Call("preprocess_data", <<>>, cols, outcome,
                      IF outcome = "returned" THEN after ELSE None)
       /\ UNCHANGED <<funnel_data, cdata, cohort_data, cret>>

\* What a chart method does with self.funnel_data: nothing when it is None,
\* KeyError on the column-less frame of an empty step list, a figure otherwise.
ChartOutcome ==
    IF funnel_data.none THEN "none_returned"
    ELSE IF funnel_data.rows = <<>> THEN "KeyError"
    ELSE "returned"

PlotFunnelChart ==
    /\ ret' = Call("plot_funnel_chart", <<>>, <<>>, ChartOutcome,
                   IF ChartOutcome = "returned" THEN funnel_data ELSE None)
    /\ UNCHANGED <<data, funnel_data, cdata, cohort_data, cret>>

PlotConversionRates ==
    /\ ret' = Call("plot_conversion_rates", <<>>, <<>>, ChartOutcome,
                   IF ChartOutcome = "returned" THEN funnel_data ELSE None)
    /\ UNCHANGED <<data, funnel_data, cdata, cohort_data, cret>>

\* save_visualizations: both charts and funnel_metrics.csv, written from
\* self.funnel_data.
SaveVisualizations ==
    /\ ret' = Call("save_visualizations", <<>>, <<>>, ChartOutcome,
                   IF ChartOutcome = "returned" THEN funnel_data ELSE None)
    /\ UNCHANGED <<data, funnel_data, cdata, cohort_data, cret>>

ExportSteps == <<"page_view", "signup", "first_purchase", "repeat_purchase">>

\* export_results.main on an analyzer of its own: load_data never raises, so
\* the except branch that returns is never taken; preprocess_data,
\* create_funnel_analysis and save_visualizations run on whatever was
\* loaded, and analyzer.data.groupby fails on None.  `value` is the table
\* main loaded.
ExportMain(file) ==
    LET loaded == IF file.ok THEN EventTable(file.rows, FALSE) ELSE None
        funnel ==
            IF loaded.none
            THEN [outcome |-> "no_data", value |-> <<>>]
            ELSE FunnelCall(DropDuplicates(SortValues(loaded.rows)), ExportSteps,
                            DefaultUserCol, DefaultEventCol)
        outcome ==
            IF funnel.outcome = "ZeroDivisionError" THEN "ZeroDivisionError"
            ELSE IF loaded.none THEN "AttributeError"
            ELSE "completed"
    IN /\ ret' = Call("export_results.main", ExportSteps, <<>>, outcome, loaded)
       /\ UNCHANGED <<data, funnel_data, cdata, cohort_data, cret>>

---------------------------------------------------------------------------
(* CohortAnalyzer: the chart methods *)

CohortChartOutcome == IF cohort_data.none THEN "none_returned" ELSE "returned"

PlotCohortHeatmap ==
    /\ cret' = [op |-> "plot_cohort_heatmap", cols |-> <<>>,
                outcome |-> CohortChartOutcome, value |-> cohort_data]
    /\ UNCHANGED <<cdata, cohort_data, data, funnel_data, ret>>

PlotRetentionCurves ==
    /\ cret' = [op |-> "plot_retention_curves", cols |-> <<>>,
                outcome |-> CohortChartOutcome, value |-> cohort_data]
    /\ UNCHANGED <<cdata, cohort_data, data, funnel_data, ret>>

---------------------------------------------------------------------------
(* The funnel engine as a function of its inputs: the analyzer is          *)
(* constructed on an event log (or on none) and the analysis is run once.  *)

InitFunnel ==
    /\ data \in {DataFrame(log) : log \in Logs} \cup {None}
    /\ funnel_data = None
    /\ ret = NoCall
    /\ cdata = NoFrame
    /\ cohort_data = NoCohortData
    /\ cret = NoCohortCall

NextFunnel ==
    /\ ret = NoCall
    /\ \E funnel_steps \in StepLists :
          CreateFunnelAnalysis(funnel_steps, DefaultUserCol, DefaultEventCol)

SpecFunnel == InitFunnel /\ [][NextFunnel]_vars

---------------------------------------------------------------------------
(* The cohort engine as a function of its input: CohortAnalyzer(data) is   *)
(* constructed on an event table and the analysis is run once.             *)

InitCohort ==
    /\ cdata \in {CohortFrame(log, parsed) : log \in CohortLogs, parsed \in BOOLEAN}
    /\ cohort_data = NoCohortData
    /\ cret = NoCohortCall
    /\ data = None
    /\ funnel_data = None
    /\ ret = NoCall

NextCohort ==
    /\ cret = NoCohortCall
    /\ CreateCohortAnalysis(DefaultUserCol, DefaultTimestampCol, DefaultEventCol)

SpecCohort == InitCohort /\ [][NextCohort]_vars

---------------------------------------------------------------------------
(* Preprocessing: the analyzer is constructed on a loaded table, which is  *)
(* preprocessed any number of times and then analysed.                     *)

PreprocessLogs == UNION {[1..n -> Rows] : n \in 0..MaxPreprocessRows}

InitPreprocess ==
    /\ data \in {EventTable(log, FALSE) : log \in PreprocessLogs}
    /\ funnel_data = None
    /\ ret = NoCall
    /\ cdata = NoFrame
    /\ cohort_data = NoCohortData
    /\ cret = NoCohortCall

PreprocessThenAnalyse ==
    /\ ret.op # "create_funnel_analysis"
    /\ \E funnel_steps \in StepLists :
          CreateFunnelAnalysis(funnel_steps, DefaultUserCol, DefaultEventCol)

PreprocessAgain ==
    /\ ret.op # "create_funnel_analysis"
    /\ PreprocessData(DefaultTimestampCol, DefaultUserCol, DefaultEventCol)

NextPreprocess == PreprocessAgain \/ PreprocessThenAnalyse

SpecPreprocess == InitPreprocess /\ [][NextPreprocess]_vars

---------------------------------------------------------------------------
(* The life of an analyzer.  A program constructs a FunnelAnalyzer with no *)
(* data path, or a CohortAnalyzer on a table, and calls its methods in any *)
(* order with any arguments; or it is the export script, which runs once.  *)

CallStepLists == UNION {[1..n -> Events] : n \in 0..MaxCallSteps}

Init ==
    /\ data = None
    /\ funnel_data = None
    /\ ret = NoCall
    /\ cdata \in {NoFrame} \cup
                 {CohortFrame(log, parsed) : log \in CohortLogs, parsed \in BOOLEAN}
    /\ cohort_data = NoCohortData
    /\ cret = NoCohortCall

FunnelAnalyzerNext ==
    \/ \E file \in CsvFiles(MaxLoadRows) : LoadData(file)
    \/ \E timestamp_col \in ColumnArgs(DefaultTimestampCol) :
       \E user_col \in ColumnArgs(DefaultUserCol) :
       \E event_col \in ColumnArgs(DefaultEventCol) :
          PreprocessData(timestamp_col, user_col, event_col)
    \/ \E funnel_steps \in CallStepLists :
       \E user_col \in ColumnArgs(DefaultUserCol) :
       \E event_col \in ColumnArgs(DefaultEventCol) :
          CreateFunnelAnalysis(funnel_steps, user_col, event_col)
    \/ PlotFunnelChart
    \/ PlotConversionRates
    \/ SaveVisualizations

ExportScript == \E file \in CsvFiles(MaxExportRows) : ExportMain(file)

CohortAnalyzerNext ==
    \/ \E user_col \in ColumnArgs(DefaultUserCol) :
       \E timestamp_col \in ColumnArgs(DefaultTimestampCol) :
       \E event_col \in ColumnArgs(DefaultEventCol) :
          CreateCohortAnalysis(user_col, timestamp_col, event_col)
    \/ PlotCohortHeatmap
    \/ PlotRetentionCurves

Next ==
    \/ cdata.none /\ ret.op # "export_results.main" /\ FunnelAnalyzerNext
    \/ cdata.none /\ ret = NoCall /\ ExportScript
    \/ ~cdata.none /\ CohortAnalyzerNext

Spec == Init /\ [][Next]_vars

---------------------------------------------------------------------------
(* What the funnel claims speak of *)

\* The last operation was create_funnel_analysis on a loaded table with the
\* default (existing) column names.
FunnelCalled ==
    /\ ret.op = "create_funnel_analysis"
    /\ ~data.none
    /\ ret.cols = <<DefaultUserCol, DefaultEventCol>>

FunnelReturned == FunnelCalled /\ ret.outcome = "returned"

\* The distinct users who produced every one of steps[1..i] somewhere in the log.
QualifiedUsers(rows, steps, i) ==
    {u \in Users : \A j \in 1..i : \E k \in DOMAIN rows :
        rows[k].user_id = u /\ rows[k].event = steps[j]}

QualifiedCount(i) == Cardinality(QualifiedUsers(data.rows, ret.steps, i))

ResultRows == ret.value.rows

Zero == <<0, 1>>

\* Whenever the call returns, it returns one row per step in input order with
\* the qualified-user counts.
FunnelReturnsQualifiedCounts ==
    (FunnelReturned /\ Len(ret.steps) > 0) =>
        /\ Len(ResultRows) = Len(ret.steps)
        /\ \A i \in 1..Len(ret.steps) :
              /\ ResultRows[i].step = ret.steps[i]
              /\ ResultRows[i].count = QualifiedCount(i)

\* The call raises exactly when some step before the last has no qualified user.
FunnelRaisesOnZeroBeforeLast ==
    FunnelCalled =>
        (ret.outcome = "ZeroDivisionError"
            <=> \E i \in 1..(Len(ret.steps) - 1) : QualifiedCount(i) = 0)

\* C1: for every event log and every non-empty step list the call returns one
\* row per step in input order, and row i's count is the number of distinct
\* users who produced every one of steps[0..i].
C1_OneRowPerStepQualifiedCount ==
    (FunnelCalled /\ Len(ret.steps) > 0) =>
        /\ ret.outcome = "returned"
        /\ Len(ResultRows) = Len(ret.steps)
        /\ \A i \in 1..Len(ret.steps) :
              /\ ResultRows[i].step = ret.steps[i]
              /\ ResultRows[i].count = QualifiedCount(i)

\* C2: the counts of a returned result never increase from one step to the
\* next and are never negative.
C2_CountsNonIncreasing ==
    FunnelReturned =>
        /\ \A i \in 1..Len(ResultRows) : ResultRows[i].count >= 0
        /\ \A i \in 1..(Len(ResultRows) - 1) :
              ResultRows[i].count >= ResultRows[i + 1].count

C2_Witness ==
    /\ FunnelReturned
    /\ Len(ResultRows) = MaxSteps
    /\ \A i \in 1..(Len(ResultRows) - 1) :
          ResultRows[i].count > ResultRows[i + 1].count

\* C3: a step name absent from the log raises nothing; the count of that step
\* and of every later step is 0, wherever the step sits in the list.
C3_AbsentStepZeroNoRaise ==
    FunnelCalled =>
        \A i \in 1..Len(ret.steps) :
            (\A k \in DOMAIN data.rows : data.rows[k].event # ret.steps[i]) =>
                /\ ret.outcome = "returned"
                /\ \A j \in i..Len(ret.steps) : ResultRows[j].count = 0

\* C4: a rate whose denominator is zero is 0, and the call completes.
C4_ZeroDenominatorGivesZero ==
    FunnelCalled =>
        \A i \in 2..Len(ret.steps) :
            /\ QualifiedCount(1) = 0 =>
                  ret.outcome = "returned" /\ ResultRows[i].conversion_rate = Zero
            /\ QualifiedCount(i - 1) = 0 =>
                  ret.outcome = "returned" /\ ResultRows[i].step_conversion = Zero

\* C5: an empty event log (with a step list of any length) or an empty step
\* list does not raise; every count of the result is zero.
C5_EmptyInputZeroFilled ==
    (FunnelCalled /\ (data.rows = <<>> \/ ret.steps = <<>>)) =>
        /\ ret.outcome = "returned"
        /\ Len(ResultRows) = Len(ret.steps)
        /\ \A i \in 1..Len(ResultRows) : ResultRows[i].count = 0

\* Scenario A: events (1,page_view), (1,signup), (2,page_view) in that order.
ScenarioA ==
    /\ FunnelCalled
    /\ Len(data.rows) = 3
    /\ <<data.rows[1].user_id, data.rows[1].event>> = <<1, "page_view">>
    /\ <<data.rows[2].user_id, data.rows[2].event>> = <<1, "signup">>
    /\ <<data.rows[3].user_id, data.rows[3].event>> = <<2, "page_view">>
    /\ ret.steps = <<"page_view", "signup">>

\* C6: in a returned result, for every step i > 0,
\* conversion_rate[i] * count[0] = 100 * count[i] and
\* step_conversion[i] * count[i-1] = 100 * count[i] with non-zero
\* denominators; Scenario A gives counts 2, 1 and rates 100, 50 and 50.
C6_RatesAreQuotients ==
    /\ FunnelReturned =>
          \A i \in 2..Len(ResultRows) :
             LET cr == ResultRows[i].conversion_rate
                 sc == ResultRows[i].step_conversion
             IN /\ cr[2] > 0 /\ sc[2] > 0
                /\ cr[1] * ResultRows[1].count = 100 * ResultRows[i].count * cr[2]
                /\ sc[1] * ResultRows[i - 1].count = 100 * ResultRows[i].count * sc[2]
    /\ ScenarioA =>
          /\ ret.outcome = "returned"
          /\ ResultRows = << [step |-> "page_view", count |-> 2,
                              conversion_rate |-> <<100, 1>>,
                              step_conversion |-> <<100, 1>>],
                             [step |-> "signup", count |-> 1,
                              conversion_rate |-> <<50, 1>>,
                              step_conversion |-> <<50, 1>>] >>

\* A returned three-step result whose two rates differ at the last step.
C6_Witness ==
    /\ FunnelReturned
    /\ Len(ResultRows) = 3
    /\ ResultRows[3].conversion_rate = <<50, 1>>
    /\ ResultRows[3].step_conversion = <<100, 1>>

\* C7: in every returned result for a non-empty step list, conversion_rate[0]
\* and step_conversion[0] are 100.0, also when no user produced steps[0].
C7_FirstRowIsHundred ==
    (FunnelReturned /\ Len(ret.steps) > 0) =>
        /\ ResultRows[1].conversion_rate = <<100, 1>>
        /\ ResultRows[1].step_conversion = <<100, 1>>

C7_Witness ==
    /\ FunnelReturned
    /\ Len(ret.steps) > 0
    /\ ResultRows[1].count = 0
    /\ data.rows # <<>>

\* The (user, event) pairs of a log.
PairSet(rows) == {<<rows[k].user_id, rows[k].event>> : k \in DOMAIN rows}

EventOrder == <<"page_view", "signup", "first_purchase">>

AllPairs ==
    [k \in 1..(MaxUser * Len(EventOrder)) |->
        [user_id |-> ((k - 1) \div Len(EventOrder)) + 1,
         event |-> EventOrder[((k - 1) % Len(EventOrder)) + 1],
         timestamp |-> 0]]

InPairSet(rows, r) == <<r.user_id, r.event>> \in PairSet(rows)

\* The one log that stands for all logs with the pair set of `rows`: each pair
\* once, in a fixed order, at timestamp 0.
RECURSIVE Canonical(_, _)
Canonical(rows, k) ==
    IF k > Len(AllPairs) THEN <<>>
    ELSE (IF InPairSet(rows, AllPairs[k]) THEN <<AllPairs[k]>> ELSE <<>>)
         \o Canonical(rows, k + 1)

\* C8: the outcome of the call depends only on the set of (user, event) pairs
\* of the log: it is the outcome on the canonical log of that pair set,
\* whatever the timestamps, the row order and the repetitions.
C8_EventSetBased ==
    FunnelCalled =>
        LET r == FunnelCall(Canonical(data.rows, 1), ret.steps,
                            DefaultUserCol, DefaultEventCol)
        IN /\ ret.outcome = r.outcome
           /\ ret.outcome = "returned" => ResultRows = r.value

\* User 1 signed up (timestamp 0) before viewing a page (timestamp 1), the log
\* repeats a row, and user 1 still counts at the later step signup.
C8_Witness ==
    /\ FunnelReturned
    /\ ret.steps = <<"page_view", "signup">>
    /\ ResultRows[2].count = 1
    /\ Len(data.rows) = MaxRows
    /\ data.rows[1] = [user_id |-> 1, event |-> "signup", timestamp |-> 0]
    /\ data.rows[2] = [user_id |-> 1, event |-> "page_view", timestamp |-> 1]
    /\ data.rows[3] = data.rows[2]
    /\ data.rows # Canonical(data.rows, 1)

---------------------------------------------------------------------------
(* What the cohort claims speak of *)

CohortReturned ==
    /\ cret.op = "create_cohort_analysis"
    /\ cret.outcome = "returned"

CohortTableOf == cret.value.table.cohort_table

RetentionTableOf == cret.value.table.retention_table

SeqSet(q) == {q[k] : k \in DOMAIN q}

One == <<1, 1>>

\* C9: for a non-empty event log every cohort row of the result has a
\* period-0 cell, the first column of the table is period 0, the divisor of
\* the row is that cell and is neither missing nor zero, and
\* retention_table[c][0] = 1.0.
C9_RetentionAtPeriodZeroIsOne ==
    (CohortReturned /\ cdata.rows # <<>>) =>
        /\ CohortTableOf.index # <<>>
        /\ CohortTableOf.columns[1] = 0
        /\ \A c \in SeqSet(CohortTableOf.index) :
              /\ ~IsNaN(CohortTableOf.cell[<<c, 0>>])
              /\ CohortTableOf.cell[<<c, 0>>][1] > 0
              /\ cret.value.table.cohort_sizes[c] = CohortTableOf.cell[<<c, 0>>]
              /\ RetentionTableOf.cell[<<c, 0>>] = One

\* Two cohorts, the later one without a cell in the table's last period.
C9_Witness ==
    /\ CohortReturned
    /\ Len(CohortTableOf.index) = 2
    /\ Len(CohortTableOf.columns) = 2
    /\ \E c \in SeqSet(CohortTableOf.index) :
          IsNaN(CohortTableOf.cell[<<c, CohortTableOf.columns[2]>>])

\* The distinct users of cohort c with an event p months after c.
ActiveUsers(rows, c, p) ==
    {u \in Users :
        /\ \E k \in DOMAIN rows : rows[k].user_id = u
        /\ \A k \in DOMAIN rows :
              rows[k].user_id = u => ToPeriodM(rows[k].timestamp) >= c
        /\ \E k \in DOMAIN rows :
              rows[k].user_id = u /\ ToPeriodM(rows[k].timestamp) = c
        /\ \E k \in DOMAIN rows :
              rows[k].user_id = u /\ ToPeriodM(rows[k].timestamp) = c + p}

\* C10: every present cell of the retention table lies in [0,1], and the
\* distinct cohort-c users active in period p never outnumber those of
\* period 0.
C10_RetentionInUnitInterval ==
    CohortReturned =>
        \A cp \in DOMAIN RetentionTableOf.cell :
            /\ ~IsNaN(RetentionTableOf.cell[cp]) =>
                  /\ RetentionTableOf.cell[cp][1] >= 0
                  /\ RetentionTableOf.cell[cp][1] <= RetentionTableOf.cell[cp][2]
            /\ ~IsNaN(CohortTableOf.cell[cp]) =>
                  CohortTableOf.cell[cp][1] <= CohortTableOf.cell[<<cp[1], 0>>][1]
            /\ Cardinality(ActiveUsers(cdata.rows, cp[1], cp[2]))
                  <= Cardinality(ActiveUsers(cdata.rows, cp[1], 0))

\* A cohort of two users, one of them active a month later (retention 1/2),
\* the returning user with two events in that month.
C10_Witness ==
    /\ CohortReturned
    /\ \E cp \in DOMAIN RetentionTableOf.cell :
          /\ cp[2] > 0
          /\ RetentionTableOf.cell[cp] = <<1, 2>>

\* The calendar month of a user's earliest event: the user's cohort month.
CohortMonth(rows, u) ==
    LET months == {ToPeriodM(rows[k].timestamp) :
                      k \in {j \in DOMAIN rows : rows[j].user_id = u}}
    IN CHOOSE m \in months : \A m2 \in months : m <= m2

\* The rows create_cohort_analysis works on, with their period numbers.
PeriodRows == CohortData(cdata.rows)

\* C11: the period number of every event of every user is a non-negative
\* whole number of months, the difference between the event's month and the
\* user's cohort month, and it is 0 exactly for the events of the cohort
\* month; no column of the cohort table is a negative period.
C11_PeriodNumberNonNegative ==
    CohortReturned =>
        /\ \A k \in DOMAIN PeriodRows :
              LET r == PeriodRows[k]
                  c == CohortMonth(cdata.rows, r.user_id)
              IN /\ r.period_number \in Nat
                 /\ r.cohort_period = c
                 /\ r.period_number = ToPeriodM(r.timestamp) - c
                 /\ (r.period_number = 0 <=> ToPeriodM(r.timestamp) = c)
        /\ \A p \in SeqSet(CohortTableOf.columns) : p >= 0

\* A user with a later event in the cohort month and one two months on, the
\* rows not in time order.
C11_Witness ==
    /\ CohortReturned
    /\ Len(cdata.rows) = MaxCohortRows
    /\ cdata.rows[1].timestamp > cdata.rows[2].timestamp
    /\ cdata.rows[1].user_id = cdata.rows[2].user_id
    /\ \E k \in DOMAIN PeriodRows : PeriodRows[k].period_number = 2
    /\ \E k \in DOMAIN PeriodRows :
          /\ PeriodRows[k].period_number = 0
          /\ PeriodRows[k].timestamp # UserFirstEvent(cdata.rows)[PeriodRows[k].user_id]

\* The users whose earliest-event month is c.
CohortMembers(rows, c) ==
    {u \in {rows[k].user_id : k \in DOMAIN rows} : CohortMonth(rows, u) = c}

\* The members of cohort c with an event exactly p months after c.
ActiveMembers(rows, c, p) ==
    {u \in CohortMembers(rows, c) :
        \E k \in DOMAIN rows :
            rows[k].user_id = u /\ ToPeriodM(rows[k].timestamp) = c + p}

\* Scenario D: one user, events in a month and two months later only.
ScenarioD ==
    /\ CohortReturned
    /\ Len(cdata.rows) = 2
    /\ cdata.rows[1].user_id = cdata.rows[2].user_id
    /\ ToPeriodM(cdata.rows[2].timestamp) = ToPeriodM(cdata.rows[1].timestamp) + 2

\* Scenario C: one user, two events in one calendar month.
ScenarioC ==
    /\ CohortReturned
    /\ Len(cdata.rows) = 2
    /\ cdata.rows[1].user_id = cdata.rows[2].user_id
    /\ ToPeriodM(cdata.rows[2].timestamp) = ToPeriodM(cdata.rows[1].timestamp)

\* C12: the rows of the cohort table are the cohort months that have a
\* member, its columns the period numbers that occur, and cell (c, p) is the
\* number of members of c with an event exactly p months after c, missing
\* when there is none (never filled from a neighbouring period); Scenario D
\* gives columns 0 and 2 only, Scenario C one row with period 0 only.
C12_CohortTableCountsActiveMembers ==
    /\ CohortReturned =>
          /\ SeqSet(CohortTableOf.index) =
                {c \in 0..ToPeriodM(MaxCohortTs) : CohortMembers(cdata.rows, c) # {}}
          /\ SeqSet(CohortTableOf.columns) =
                {p \in 0..ToPeriodM(MaxCohortTs) :
                    \E c \in SeqSet(CohortTableOf.index) :
                        ActiveMembers(cdata.rows, c, p) # {}}
          /\ DOMAIN CohortTableOf.cell =
                SeqSet(CohortTableOf.index) \X SeqSet(CohortTableOf.columns)
          /\ \A cp \in DOMAIN CohortTableOf.cell :
                LET n == Cardinality(ActiveMembers(cdata.rows, cp[1], cp[2]))
                IN CohortTableOf.cell[cp] = IF n = 0 THEN NaN ELSE <<n, 1>>
    /\ ScenarioD =>
          /\ Len(CohortTableOf.index) = 1
          /\ CohortTableOf.columns = <<0, 2>>
          /\ \A cp \in DOMAIN CohortTableOf.cell : CohortTableOf.cell[cp] = One
    /\ ScenarioC =>
          /\ Len(CohortTableOf.index) = 1
          /\ CohortTableOf.columns = <<0>>
          /\ \A cp \in DOMAIN CohortTableOf.cell :
                CohortTableOf.cell[cp] = One /\ RetentionTableOf.cell[cp] = One

\* Two cohorts: one user active in months c and c + 2 only, another whose
\* only month is c + 1: no column for period 1, and the later cohort's cell
\* of period 2 is missing.
C12_Witness ==
    /\ CohortReturned
    /\ Len(CohortTableOf.index) = 2
    /\ CohortTableOf.columns = <<0, 2>>
    /\ \E c \in SeqSet(CohortTableOf.index) :
          /\ CohortTableOf.cell[<<c, 0>>] = One
          /\ CohortTableOf.cell[<<c, 2>>] = One
          /\ CohortTableOf.cell[<<c + 1, 0>>] = One
          /\ IsNaN(CohortTableOf.cell[<<c + 1, 2>>])

---------------------------------------------------------------------------
(* What the life-cycle claims speak of *)

FunnelCallMade == ret.op = "create_funnel_analysis"

CohortCallMade == cret.op = "create_cohort_analysis"

\* What an analyzer with no earlier result computes from the table and the
\* arguments of the last call.
FreshFunnelResult ==
    IF data.none THEN [outcome |-> "no_data", value |-> None]
    ELSE LET r == FunnelCall(data.rows, ret.steps, ret.cols[1], ret.cols[2])
         IN [outcome |-> r.outcome,
             value |-> IF r.outcome = "returned" THEN DataFrame(r.value) ELSE None]

FreshCohortResult ==
    LET r == CohortCall(cdata, cret.cols[1], cret.cols[2], cret.cols[3])
    IN [outcome |-> r.outcome,
        value |-> [none |-> r.outcome # "returned", table |-> r.value]]

\* C13: recomputation is idempotent.  Whatever results earlier calls with
\* other arguments left in funnel_data or cohort_data, what a call of
\* create_funnel_analysis or create_cohort_analysis returns or raises is what
\* an analyzer without any earlier result computes from the same table and
\* the same arguments; so the same call on unchanged data gives the same
\* result again.
C13_RecomputationIdempotent ==
    /\ FunnelCallMade =>
          /\ ret.outcome = FreshFunnelResult.outcome
          /\ ret.value = FreshFunnelResult.value
    /\ CohortCallMade =>
          /\ cret.outcome = FreshCohortResult.outcome
          /\ cret.value = FreshCohortResult.value

\* A call raised while the analyzer still held the rows of an earlier call
\* with other arguments.
C13_Witness ==
    /\ FunnelCallMade
    /\ ret.outcome = "ZeroDivisionError"
    /\ ~funnel_data.none
    /\ Len(funnel_data.rows) = 1
    /\ Len(ret.steps) = 2

RowPair(row) == <<row.user_id, row.event>>

\* The least timestamp among the rows of a pair.
EarliestOf(rows, pair) ==
    LET ts == {rows[k].timestamp : k \in {j \in DOMAIN rows : RowPair(rows[j]) = pair}}
    IN CHOOSE t \in ts : \A other \in ts : t <= other

OnePerPairEarliest(before, after) ==
    /\ PairSet(after) = PairSet(before)
    /\ \A pair \in PairSet(before) :
          Cardinality({k \in DOMAIN after : RowPair(after[k]) = pair}) = 1
    /\ \A k \in DOMAIN after :
          after[k].timestamp = EarliestOf(before, RowPair(after[k]))

PreprocessStep ==
    /\ ret'.op = "preprocess_data"
    /\ ret'.outcome = "returned"

\* C14: a completed preprocess_data leaves exactly one record for each
\* (user, event) pair of the table it was called on, and that record
\* carries the earliest timestamp the pair had, whatever the row order was.
C14_OneRecordPerPairEarliest ==
    [][PreprocessStep => OnePerPairEarliest(data.rows, data'.rows)]_vars

\* A preprocessed table that kept two events of one user and a second user.
C14_Witness ==
    /\ ret.op = "preprocess_data"
    /\ ret.outcome = "returned"
    /\ data.parsed
    /\ Len(data.rows) = MaxPreprocessRows
    /\ data.rows[1].user_id = data.rows[2].user_id
    /\ data.rows[1].timestamp < data.rows[2].timestamp
    /\ data.rows[3].user_id # data.rows[1].user_id

\* C15: a failed load aborts.  The export script whose load failed stops at
\* the load, and the create_funnel_analysis that follows a failed load_data
\* returns no funnel result.
C15_FailedLoadAborts ==
    /\ []((ret.op = "export_results.main" /\ ret.value.none)
             => ret.outcome = "stopped_at_load")
    /\ [][(ret.op = "load_data" /\ ret.outcome = "error_printed"
              /\ ret'.op = "create_funnel_analysis")
             => ret'.outcome # "returned"]_vars

UnknownColumn(cols) == \E k \in DOMAIN cols : cols[k] \notin Columns

\* C16: a call of create_funnel_analysis on a loaded table, or of
\* create_cohort_analysis, that is given a column name the table does not
\* have raises an error and returns no result, for every step list and
\* every column parameter.
C16_UnknownColumnFailsFast ==
    /\ (FunnelCallMade /\ ~data.none /\ UnknownColumn(ret.cols))
          => ret.outcome # "returned"
    /\ (CohortCallMade /\ UnknownColumn(cret.cols))
          => cret.outcome # "returned"

AnalysisAndChartMethods ==
    {"create_funnel_analysis", "plot_funnel_chart", "plot_conversion_rates",
     "save_visualizations"}

DefaultFunnel(rows, funnel_steps) ==
    FunnelCall(rows, funnel_steps, DefaultUserCol, DefaultEventCol)

\* C18: preprocessing does not change funnel results: for every step list
\* the call returns or raises the same on the preprocessed table as on the
\* table before; and a preprocess_data that follows a preprocess_data leaves
\* the set of records unchanged.
C18_PreprocessingKeepsFunnel ==
    [][PreprocessStep =>
          /\ \A funnel_steps \in StepLists :
                DefaultFunnel(data'.rows, funnel_steps) = DefaultFunnel(data.rows, funnel_steps)
          /\ (ret.op = "preprocess_data" /\ ret.outcome = "returned")
                => SeqSet(data'.rows) = SeqSet(data.rows)]_vars

\* A funnel of two steps returned from a preprocessed table of two users.
C18_Witness ==
    /\ FunnelCallMade
    /\ ret.outcome = "returned"
    /\ data.parsed
    /\ Len(data.rows) = MaxPreprocessRows
    /\ Len(ret.steps) = 2
    /\ ret.value.rows[1].count = 2
    /\ ret.value.rows[2].count = 1

ChartMethods == {"plot_funnel_chart", "plot_conversion_rates", "save_visualizations"}

\* C19: funnel_data is None until a call of create_funnel_analysis
\* completes; a completed call makes it the result that call returned; a
\* call that does not complete, and every other method, leaves it as it
\* was; and a chart method that draws, draws the funnel_data it finds.
C19_FunnelDataIsLastCompletedResult ==
    [][/\ funnel_data' # funnel_data
             => (ret'.op = "create_funnel_analysis" /\ ret'.outcome = "returned")
       /\ (ret'.op = "create_funnel_analysis" /\ ret'.outcome = "returned")
             => funnel_data' = ret'.value
       /\ (ret'.op \in ChartMethods /\ ret'.outcome = "returned")
             => (ret'.value = funnel_data /\ ~funnel_data.none)]_vars

\* A call that raised KeyError left the earlier result in place.
C19_Witness ==
    /\ FunnelCallMade
    /\ ret.outcome = "KeyError"
    /\ ~funnel_data.none
    /\ funnel_data.rows # <<>>

===========================================================================
